---- MODULE Spec2Model ----
(***************************************************************************)
(* Trajectory indexing and lazy-loading engine (core/base_parser.py,       *)
(* core/helpers.py): the byte-range indexer, the schema resolver, the      *)
(* timestep decoder, the lru_cache-backed decode cache, the parallel bulk  *)
(* loader and the query facade of BaseParser.                              *)
(*                                                                         *)
(* A file is a sequence of lines; byte offsets are line offsets (0-based,  *)
(* offset j is the start of line j+1 of the sequence, Len(f) is the file   *)
(* size).  Every marker the indexer searches for starts a line.            *)
(***************************************************************************)
EXTENDS Integers, Sequences, FiniteSets, TLC

\* ------------------------------------------------------------------ bounds
\* Files of the default specification have at most MaxBlocks timestep blocks.
MaxBlocks == 2
\* The bulk loader's pool runs at most MaxWorkers decodes at the same time.
MaxWorkers == 2
\* A caller's next request resolves to a position at most MaxStride away
\* from the position its previous request resolved to.
MaxStride == 1
\* Files of SpecIndex have at most IndexBlocks timestep blocks.
IndexBlocks == 3
\* Schemas of SpecSchema have at most MaxCols columns (and one has them all).
MaxCols == 4
\* Tables of SpecGroup have GroupRows rows, with z coordinates (in units of
\* 0.5) among the multiples of ZStep up to ZStep * MaxZ.
GroupRows == 3
ZStep == 5
MaxZ == 4
\* Number of timestep blocks of the second parser's file in SpecTwo.
SmallBlocks == 2
\* The first parser's file in SpecLRU has lru_maxsize + ExtraBlocks blocks.
ExtraBlocks == 1
\* analyses in one run, and worker processes the machine offers
MaxAnalyses == 3
MaxCpu == 2

\* @lru_cache(maxsize=8) on BaseParser._load_timestep_data
lru_maxsize == 8

\* the 2.5 of BaseParser._njit_group_indices, in units of 0.5
plane_margin == 5

Parsers == {"A", "B"}

Min(a, b) == IF a <= b THEN a ELSE b

RECURSIVE Flatten(_)
Flatten(ss) == IF ss = <<>> THEN <<>> ELSE Head(ss) \o Flatten(Tail(ss))

\* list.index(v): 0-based position of the first occurrence, -1 when absent
\* (Python raises ValueError there; callers test membership first).
IndexOf(s, v) ==
    LET c == {i \in 1..Len(s) : s[i] = v}
    IN  IF c = {} THEN -1 ELSE (CHOOSE i \in c : \A j \in c : i <= j) - 1

Contains(s, v) == \E i \in 1..Len(s) : s[i] = v

\* ------------------------------------------------------------------ files
Line(k, toks, hdr) == [k |-> k, toks |-> toks, hdr |-> hdr]
\* "ITEM: TIMESTEP"
TsLine == Line("TS", <<>>, <<>>)
\* "ITEM: ATOMS <column names>"
AtomsLine(hdr) == Line("ATOMS", <<>>, hdr)
\* any other "ITEM: ..." line (NUMBER OF ATOMS, BOX BOUNDS)
ItemLine == Line("ITEM", <<>>, <<>>)
\* a line of whitespace-separated numbers
NumLine(toks) == Line("NUM", toks, <<>>)
\* a line that is neither a marker nor numeric
TxtLine == Line("TXT", <<>>, <<>>)
\* what readline() returns at end of file: b''
EofLine == Line("EOF", <<>>, <<>>)

ItemKinds == {"TS", "ATOMS", "ITEM"}

\* The dump's column header used by the generated files.
Cols == <<"id", "type", "x", "y", "z", "c_cna">>

\* Row r of the data block of block j: values that differ per block, row, column.
DataRow(j, r, w) == [c \in 1..w |-> 100 * j + 10 * r + c]

BlockKinds == {"full", "trunc", "noatoms", "badid"}
TimestepIds == {0, 2}
BlockSpecs == [id : TimestepIds, kind : BlockKinds]

\* The lines of the j-th block of a file whose ATOMS lines name the columns hdr.
\*   full    : marker, id, NUMBER OF ATOMS, count, ATOMS header, two rows
\*   trunc   : as full, with the last row cut short
\*   noatoms : a timestep block that has no ATOMS marker
\*   badid   : the line after the timestep marker is not an integer
\*   nocols  : as full, with an ATOMS line that names no column
BlockLinesH(j, b, hdr) ==
    LET w   == Len(hdr)
        pre == << TsLine,
                  IF b.kind = "badid" THEN TxtLine ELSE NumLine(<<b.id>>),
                  ItemLine, NumLine(<<2>>) >>
    IN  CASE b.kind = "noatoms" -> pre
          [] b.kind = "trunc"   ->
                pre \o << AtomsLine(hdr), NumLine(DataRow(j, 1, w)),
                          NumLine(SubSeq(DataRow(j, 2, w), 1, w - 2)) >>
          [] b.kind = "nocols"  ->
                pre \o << AtomsLine(<<>>), NumLine(DataRow(j, 1, w)),
                          NumLine(DataRow(j, 2, w)) >>
          [] OTHER              ->
                pre \o << AtomsLine(hdr), NumLine(DataRow(j, 1, w)),
                          NumLine(DataRow(j, 2, w)) >>

\* The lines of the j-th block of a file with the columns Cols.
BlockLines(j, b) == BlockLinesH(j, b, Cols)

MkFile(bs) == Flatten([j \in 1..Len(bs) |-> BlockLines(j, bs[j])])

MkFileH(hdr, bs) == Flatten([j \in 1..Len(bs) |-> BlockLinesH(j, bs[j], hdr)])

NoFile == << EofLine >>

\* ------------------------------------------------------------------ mmap
\* mmap.find(marker, off): offset of the first line at or after off that starts
\* with the marker, -1 when there is none.
Find(f, kinds, off) ==
    LET c == {j \in off..(Len(f) - 1) : f[j + 1].k \in kinds}
    IN  IF c = {} THEN -1 ELSE CHOOSE j \in c : \A i \in c : j <= i

\* mmap.readline() at offset pos
ReadLine(f, pos) == IF pos < Len(f) THEN f[pos + 1] ELSE EofLine

\* int(line.strip()) succeeds
IntOk(l) == l.k = "NUM" /\ Len(l.toks) = 1

\* ------------------------------------------------------------------ schema resolver
\* variant: each name that is missing gets its own default position
_parse_atoms_spatial_coordinates_indices_PerColumn(headers) ==
    << IF Contains(headers, "x") THEN IndexOf(headers, "x") ELSE 2,
       IF Contains(headers, "y") THEN IndexOf(headers, "y") ELSE 3,
       IF Contains(headers, "z") THEN IndexOf(headers, "z") ELSE 4 >>

\* BaseParser._parse_atoms_spatial_coordinates_indices
_parse_atoms_spatial_coordinates_indices(headers) ==
    IF Contains(headers, "x") /\ Contains(headers, "y") /\ Contains(headers, "z")
    THEN << IndexOf(headers, "x"), IndexOf(headers, "y"), IndexOf(headers, "z") >>
    ELSE << 2, 3, 4 >>

\* the WARNING line 138 prints when the lookup of "x", "y" or "z" fails
SpatialWarning(headers) ==
    IF Contains(headers, "x") /\ Contains(headers, "y") /\ Contains(headers, "z")
    THEN <<>>
    ELSE << "WARNING" >>

\* the analysis_headers table of BaseParser._create_analysis_column_map
analysis_headers ==
    << [name |-> "centro_symmetric", multi |-> FALSE, cols |-> <<"c_center_symmetric">>],
       [name |-> "cna",              multi |-> FALSE, cols |-> <<"c_cna">>],
       [name |-> "vonmises",         multi |-> FALSE, cols |-> <<"v_atoms_stress">>],
       [name |-> "velocity_squared", multi |-> FALSE, cols |-> <<"v_velocity_squared_atom">>],
       [name |-> "cluster",          multi |-> FALSE, cols |-> <<"c_cluster">>],
       [name |-> "ke_hotspots",      multi |-> FALSE, cols |-> <<"c_ke_hotspots">>],
       [name |-> "is_hotspot",       multi |-> FALSE, cols |-> <<"v_is_hotspot">>],
       [name |-> "coord",            multi |-> FALSE, cols |-> <<"c_coord">>],
       [name |-> "ptm",              multi |-> TRUE,
        cols |-> <<"c_ptm[1]", "c_ptm[2]", "c_ptm[3]", "c_ptm[4]", "c_ptm[5]", "c_ptm[6]">>] >>

\* the columns of one table entry that the headers contain, as header indices
PresentIdx(headers, cols) ==
    LET present == SelectSeq(cols, LAMBDA h : Contains(headers, h))
    IN  [i \in 1..Len(present) |-> IndexOf(headers, present[i])]

\* variant: a channel whose columns are missing gets a placeholder column
_create_analysis_column_map_Placeholder(headers) ==
    [i \in 1..Len(analysis_headers) |->
        [name |-> analysis_headers[i].name, multi |-> analysis_headers[i].multi,
         idx |-> IF PresentIdx(headers, analysis_headers[i].cols) = <<>>
                 THEN << 0 >>
                 ELSE PresentIdx(headers, analysis_headers[i].cols)]]

\* BaseParser._create_analysis_column_map: the map as its items in insertion order
_create_analysis_column_map(headers) ==
    LET entry(a) == [name |-> a.name, multi |-> a.multi,
                     idx |-> PresentIdx(headers, a.cols)]
        all == [i \in 1..Len(analysis_headers) |-> entry(analysis_headers[i])]
    IN  SelectSeq(all, LAMBDA e : e.idx # <<>>)

\* ------------------------------------------------------------------ indexer
\* dict[key] = value on a dict kept as its items in insertion order
DictSet(d, key, s, e) ==
    IF \E i \in 1..Len(d) : d[i].ts = key
    THEN [i \in 1..Len(d) |->
            IF d[i].ts = key THEN [ts |-> key, start |-> s, end |-> e] ELSE d[i]]
    ELSE Append(d, [ts |-> key, start |-> s, end |-> e])

DictHas(d, key) == \E i \in 1..Len(d) : d[i].ts = key
DictGet(d, key) == d[CHOOSE i \in 1..Len(d) : d[i].ts = key]

\* the fields BaseParser.__init__ sets before _index_file
NewParser ==
    [state |-> "new", _timesteps |-> <<>>, _timestep_atom_info |-> <<>>, _headers |-> <<>>,
     _atoms_spatial_coordinates_indices |-> <<>>, _analysis_column_map |-> <<>>,
     stdout |-> <<>>]

\* the header capture of _index_file (lines 89-93)
_index_file_headers(st, l) ==
    IF st._headers # <<>> THEN st
    ELSE [st EXCEPT !._headers = l.hdr,
                    !._atoms_spatial_coordinates_indices = _parse_atoms_spatial_coordinates_indices(l.hdr),
                    !._analysis_column_map    = _create_analysis_column_map(l.hdr),
                    !.stdout = @ \o SpatialWarning(l.hdr)]

\* the while loop of BaseParser._index_file, from the given search offset
RECURSIVE _index_file_scan(_, _, _)
_index_file_scan(f, offset, st) ==
    LET size == Len(f)
        position_timestep == Find(f, {"TS"}, offset)
    IN  IF position_timestep < 0 THEN st
        ELSE
        LET timestep_line == ReadLine(f, position_timestep + 1) IN
        IF ~IntOk(timestep_line) THEN st
        ELSE
        LET timestep == timestep_line.toks[1]
            st1 == [st EXCEPT !._timesteps = Append(@, timestep)]
            position_atoms == Find(f, {"ATOMS"}, Min(position_timestep + 2, size))
        IN  IF position_atoms < 0 THEN st1
            ELSE
            LET st2 == _index_file_headers(st1, f[position_atoms + 1])
                data_start == position_atoms + 1
                next_item == Find(f, ItemKinds, data_start)
                data_end == IF next_item >= 0 THEN next_item ELSE size
                st3 == [st2 EXCEPT !._timestep_atom_info = DictSet(@, timestep, data_start, data_end)]
            IN  _index_file_scan(f, data_end, st3)

\* variant: the check for missing headers after the scan is left out
_index_file_NoRaise(f) ==
    [_index_file_scan(f, 0, NewParser) EXCEPT !.state = "open"]

\* BaseParser._index_file: the scan, then the ValueError when no headers were found
_index_file(f) ==
    LET st == _index_file_scan(f, 0, NewParser)
    IN  IF st._headers = <<>> THEN [st EXCEPT !.state = "failed"]
        ELSE [st EXCEPT !.state = "open"]

\* ------------------------------------------------------------------ decoder
\* np.fromstring(segment, sep=' '): the numbers of the segment, up to the first
\* text that is not a number
RECURSIVE Tokens(_, _, _)
Tokens(f, start, end) ==
    IF start >= end \/ start >= Len(f) THEN <<>>
    ELSE IF f[start + 1].k # "NUM" THEN <<>>
    ELSE f[start + 1].toks \o Tokens(f, start + 1, end)

\* variant: the tokens after the last full row are dropped
ReshapeFloor(flat, n_cols) ==
    [status |-> "ok",
     val |-> [r \in 1..(Len(flat) \div n_cols) |->
                SubSeq(flat, (r - 1) * n_cols + 1, r * n_cols)]]

\* flat.reshape(-1, n_cols): the rows, or the ValueError numpy raises
Reshape(flat, n_cols) ==
    IF Len(flat) % n_cols # 0
    THEN [status |-> "ValueError", val |-> <<>>]
    ELSE [status |-> "ok",
          val |-> [r \in 1..(Len(flat) \div n_cols) |->
                     SubSeq(flat, (r - 1) * n_cols + 1, r * n_cols)]]

\* helpers._load_segment((start, end, n_cols)) on the worker's mapping of the file
\* its exception is the one numpy raises, "cannot reshape array of size N into
\* shape (K)"; msg lists the values an exception's message is formatted with
_load_segment(f, start, end, n_cols) ==
    LET r == Reshape(Tokens(f, start, end), n_cols)
    IN  [status |-> r.status, val |-> r.val,
         msg |-> IF r.status = "ok" THEN <<>> ELSE << "size", "shape" >>]

\* ------------------------------------------------------------------ decode cache
\* the resolved timestep of a call is <<t>>, or <<>> when the call raised before
\* it read self._timesteps
NoTs == <<>>

\* the key functools.lru_cache builds from the call's arguments (self, timestep)
CacheKey(p, timestep) == << p, timestep >>

CacheKeys(c) == {c[i].key : i \in 1..Len(c)}

\* position of the key in the cache (oldest first), 0 when it is not cached
CacheFind(c, key) ==
    IF \E i \in 1..Len(c) : c[i].key = key
    THEN CHOOSE i \in 1..Len(c) : c[i].key = key
    ELSE 0

\* variant: a hit leaves the order alone, so the cache evicts first-in first-out
LruHitNoTouch(c, i) == c

\* a cache hit moves the entry to the most-recently-used end
LruHit(c, i) == SubSeq(c, 1, i - 1) \o SubSeq(c, i + 1, Len(c)) \o << c[i] >>

\* variant: the recycled oldest slot gets the new key but keeps its old result
LruInsertStale(c, e) ==
    IF Len(c) >= lru_maxsize
    THEN Append(Tail(c), [key |-> e.key, val |-> c[1].val])
    ELSE Append(c, e)

\* a new entry replaces the least-recently-used one when the cache is full
LruInsert(c, e) == Append(IF Len(c) >= lru_maxsize THEN Tail(c) ELSE c, e)

\* variant: every range of the index is validated before one is decoded
_load_timestep_data_body_Eager(pr, f, timestep) ==
    IF \/ ~DictHas(pr._timestep_atom_info, timestep)
       \/ \E i \in 1..Len(pr._timestep_atom_info) :
             Reshape(Tokens(f, pr._timestep_atom_info[i].start,
                            pr._timestep_atom_info[i].end),
                     Len(pr._headers)).status # "ok"
    THEN [status |-> "ValueError", val |-> <<>>, msg |-> << "timestep" >>]
    ELSE [status |-> "ok",
          val |-> Reshape(Tokens(f, DictGet(pr._timestep_atom_info, timestep).start,
                                 DictGet(pr._timestep_atom_info, timestep).end),
                          Len(pr._headers)).val,
          msg |-> <<>>]

\* the body of BaseParser._load_timestep_data (lines 117-126)
_load_timestep_data_body(pr, f, timestep) ==
    IF ~DictHas(pr._timestep_atom_info, timestep)
    THEN [status |-> "ValueError", val |-> <<>>, msg |-> << "timestep" >>]
    ELSE LET r == DictGet(pr._timestep_atom_info, timestep)
             t == Reshape(Tokens(f, r.start, r.end), Len(pr._headers))
         IN  [status |-> t.status, val |-> t.val,
              msg |-> IF t.status = "ok" THEN <<>>
                      ELSE << "timestep", "flat.size", "n_cols" >>]

\* variant: a decode that raised leaves an empty table in the cache
_load_timestep_data_CacheFailure(c, pr, f, p, timestep) ==
    LET key == CacheKey(p, timestep)
        i   == CacheFind(c, key)
    IN  IF i > 0
        THEN [cache |-> LruHit(c, i), status |-> "ok", val |-> c[i].val,
              hit |-> TRUE, key |-> << timestep >>, msg |-> <<>>]
        ELSE LET r == _load_timestep_data_body(pr, f, timestep)
             IN  [cache |-> LruInsert(c, [key |-> key, val |-> r.val]),
                  status |-> r.status, val |-> r.val,
                  hit |-> FALSE, key |-> << timestep >>, msg |-> r.msg]

\* BaseParser._load_timestep_data under @lru_cache(maxsize=8): a result is
\* cached only when the body returns; an exception leaves the cache as it was
_load_timestep_data(c, pr, f, p, timestep) ==
    LET key == CacheKey(p, timestep)
        i   == CacheFind(c, key)
    IN  IF i > 0
        THEN [cache |-> LruHit(c, i), status |-> "ok", val |-> c[i].val,
              hit |-> TRUE, key |-> << timestep >>, msg |-> <<>>]
        ELSE LET r == _load_timestep_data_body(pr, f, timestep)
             IN  IF r.status # "ok"
                 THEN [cache |-> c, status |-> r.status, val |-> <<>>,
                       hit |-> FALSE, key |-> << timestep >>, msg |-> r.msg]
                 ELSE [cache |-> LruInsert(c, [key |-> key, val |-> r.val]),
                       status |-> "ok", val |-> r.val,
                       hit |-> FALSE, key |-> << timestep >>, msg |-> <<>>]

\* ------------------------------------------------------------------ query facade
\* list[idx]: the 0-based position Python resolves idx to, -1 for IndexError
PyIndex(n, idx) ==
    IF 0 <= idx /\ idx < n THEN idx
    ELSE IF -n <= idx /\ idx < 0 THEN n + idx
    ELSE -1

\* the position BaseParser._get_timestep_data reads self._timesteps at
TimestepPos(n, timestep_idx) ==
    PyIndex(n, IF timestep_idx < 0 THEN n + timestep_idx ELSE timestep_idx)

\* the position BaseParser.get_analysis_data ends up reading: it adds the
\* length to a negative index before it calls _get_timestep_data
AnalysisPos(n, timestep_idx) ==
    TimestepPos(n, IF timestep_idx < 0 THEN n + timestep_idx ELSE timestep_idx)

\* BaseParser._get_timestep_data once the position is resolved
_get_timestep_data(c, pr, f, p, pos) ==
    IF pos < 0
    THEN [cache |-> c, status |-> "IndexError", val |-> <<>>,
          hit |-> FALSE, key |-> NoTs, msg |-> <<>>]
    ELSE _load_timestep_data(c, pr, f, p, pr._timesteps[pos + 1])

\* data[:, column] of a decoded table
Column(rows, column) == [r \in 1..Len(rows) |-> rows[r][column + 1]]

\* ------------------------------------------------------------------ state
VARIABLES
    files,    \* files[p]: the content of the file parser p is constructed on
    parser,   \* parser[p]: the fields of the BaseParser instance p
    cache,    \* the lru_cache of _load_timestep_data, least recently used first;
              \* one cache for the class, shared by every instance
    recency,  \* history: the cached keys in the order of their last access
    evicted,  \* history: the key the cache dropped last for a new one
    cursor,   \* cursor[p]: the position p's caller last requested
    bulk,     \* the ProcessPoolExecutor of a running _load_all_timesteps
    ret,      \* the last facade call and what it returned or raised
    analyzer  \* the run of analyses an Analyzer on parser "A" is executing

vars == << files, parser, cache, recency, evicted, cursor, bulk, ret, analyzer >>

NoKey == << "", 0 >>

NoBulk ==
    [active |-> FALSE, p |-> "A", tasks |-> <<>>, out |-> <<>>,
     failed |-> FALSE, err |-> 0, ooo |-> FALSE]

\* op, p, isInt, arg, name: the call; status, val: its outcome; hit: served
\* from the cache; key: the timestep it resolved to; again: the call decoded a
\* timestep the cache had dropped for another; ooo: a bulk load whose workers
\* finished out of order; afterFail: the call before this one raised a decode
\* error; msg: the values the message of the raised exception is formatted
\* with.  For clear_data_cache, arg is the number of entries
\* dropped; for a failed bulk load, the index of the future that raised.
Ret(op, p, isInt, arg, name, status, val, hit, key) ==
    [op |-> op, p |-> p, isInt |-> isInt, arg |-> arg, name |-> name,
     status |-> status, val |-> val, hit |-> hit, key |-> key,
     again |-> FALSE, ooo |-> FALSE, afterFail |-> FALSE, msg |-> <<>>]

NoRet == Ret("none", "A", TRUE, 0, "", "ok", <<>>, FALSE, NoTs)

IsOpen(p) == parser[p].state = "open" /\ ~bulk.active

NTimesteps(p) == Len(parser[p]._timesteps)

\* the timestep indices a caller passes
IdxArgs(n) == ((-(n + 1))..n) \cup {-(2 * n + 1), -(3 * n + 1)}

\* a request the caller may make next: one that fails, or one within its stride
Near(p, pos) ==
    pos < 0 \/ (pos - cursor[p] <= MaxStride /\ cursor[p] - pos <= MaxStride)

\* the history of accesses after a call that resolved to the given key
Touch(r, key, cachedAfter) ==
    SelectSeq(SelectSeq(r, LAMBDA k : k # key) \o << key >>,
              LAMBDA k : k \in cachedAfter)

\* what a call through _get_timestep_data leaves behind, and its record
CacheStep(call, pos, r, val) ==
    LET p    == call.p
        gone == CacheKeys(cache) \ CacheKeys(r.cache)
    IN  /\ cache' = r.cache
        /\ recency' = IF r.status = "ok"
                      THEN Touch(recency, CacheKey(p, r.key[1]), CacheKeys(r.cache))
                      ELSE recency
        /\ evicted' = IF gone # {} THEN CHOOSE k \in gone : TRUE ELSE evicted
        /\ cursor' = IF pos >= 0 THEN [cursor EXCEPT ![p] = pos] ELSE cursor
        /\ ret' = [call EXCEPT !.status = r.status, !.val = val, !.hit = r.hit,
                               !.key = r.key, !.msg = r.msg,
                               !.again = r.status = "ok" /\ ~r.hit
                                         /\ evicted = CacheKey(p, r.key[1]),
                               !.afterFail = ret.status = "ValueError"
                                             /\ ret.key # NoTs]
        /\ UNCHANGED << files, analyzer, parser, bulk >>

\* a call that raises before it reaches _get_timestep_data, with a message
\* formatted with the given values
Raise(call, msg) ==
    /\ ret' = [call EXCEPT !.status = "ValueError", !.msg = msg]
    /\ UNCHANGED << files, analyzer, parser, cache, recency, evicted, cursor, bulk >>

\* ------------------------------------------------------------------ operations
\* BaseParser.__init__: map the file and index it
__init__(p) ==
    /\ parser[p].state = "new"
    /\ ~bulk.active
    /\ parser' = [parser EXCEPT ![p] = _index_file(files[p])]
    /\ ret' = Ret("__init__", p, TRUE, 0, "",
                  IF _index_file(files[p]).state = "open" THEN "ok" ELSE "ValueError",
                  <<>>, FALSE, NoTs)
    /\ UNCHANGED << files, analyzer, cache, recency, evicted, cursor, bulk >>

\* BaseParser.get_data(timestep_idx) with an int argument (lines 311-312)
get_data_int(p, timestep_idx) ==
    LET pos == TimestepPos(NTimesteps(p), timestep_idx)
        r   == _get_timestep_data(cache, parser[p], files[p], p, pos)
    IN  /\ Near(p, pos)
        /\ CacheStep(Ret("get_data", p, TRUE, timestep_idx, "", "", <<>>, FALSE, NoTs),
                     pos, r, r.val)

\* BaseParser.get_data(timestep_idx) with a number that is not an int, such as a
\* float or a numpy integer (lines 314-317)
get_data_other(p, timestep_idx) ==
    LET pos  == IndexOf(parser[p]._timesteps, timestep_idx)
        call == Ret("get_data", p, FALSE, timestep_idx, "", "", <<>>, FALSE, NoTs)
    IN  IF ~Contains(parser[p]._timesteps, timestep_idx)
        THEN Raise(call, << "timestep_idx" >>)
        ELSE LET r == _load_timestep_data(cache, parser[p], files[p], p, timestep_idx)
             IN  /\ Near(p, pos)
                 /\ CacheStep(call, pos, r, r.val)

\* BaseParser.get_data(timestep_idx) for an argument that is not None
get_data(p, isInt, timestep_idx) ==
    /\ IsOpen(p)
    /\ IF isInt THEN get_data_int(p, timestep_idx) ELSE get_data_other(p, timestep_idx)

\* BaseParser.get_column_data(column_name, timestep_idx)
get_column_data(p, column_name, timestep_idx) ==
    LET call == Ret("get_column_data", p, TRUE, timestep_idx, column_name, "", <<>>,
                    FALSE, NoTs)
    IN  /\ IsOpen(p)
        /\ IF ~Contains(parser[p]._headers, column_name)
           THEN Raise(call, << "column_name" >>)
           ELSE LET column == IndexOf(parser[p]._headers, column_name)
                    pos == TimestepPos(NTimesteps(p), timestep_idx)
                    r   == _get_timestep_data(cache, parser[p], files[p], p, pos)
                IN  /\ Near(p, pos)
                    /\ CacheStep(call, pos, r,
                                 IF r.status = "ok" THEN Column(r.val, column) ELSE <<>>)

\* BaseParser.get_analysis_data(analysis_type, timestep_idx)
get_analysis_data(p, analysis_type, timestep_idx) ==
    LET call == Ret("get_analysis_data", p, TRUE, timestep_idx, analysis_type, "", <<>>,
                    FALSE, NoTs)
        m    == parser[p]._analysis_column_map
    IN  /\ IsOpen(p)
        /\ IF ~\E i \in 1..Len(m) : m[i].name = analysis_type
           THEN Raise(call, << "analysis_type", "_headers" >>)
           ELSE LET column_idx == m[CHOOSE i \in 1..Len(m) : m[i].name = analysis_type]
                    pos == AnalysisPos(NTimesteps(p), timestep_idx)
                    r   == _get_timestep_data(cache, parser[p], files[p], p, pos)
                IN  /\ Near(p, pos)
                    /\ CacheStep(call, pos, r,
                            IF r.status # "ok" THEN <<>>
                            ELSE IF column_idx.multi
                                 THEN [k \in 1..Len(column_idx.idx) |->
                                          Column(r.val, column_idx.idx[k])]
                                 ELSE Column(r.val, column_idx.idx[1]))

\* BaseParser.get_atom_count(timestep_idx)
get_atom_count(p, timestep_idx) ==
    LET pos == TimestepPos(NTimesteps(p), timestep_idx)
        r   == _get_timestep_data(cache, parser[p], files[p], p, pos)
    IN  /\ IsOpen(p)
        /\ Near(p, pos)
        /\ CacheStep(Ret("get_atom_count", p, TRUE, timestep_idx, "", "", <<>>, FALSE, NoTs),
                     pos, r, IF r.status = "ok" THEN << Len(r.val) >> ELSE <<>>)

\* BaseParser.get_atoms_spatial_coordinates(data): the z column, or the
\* IndexError of data[:, z_idx]
get_atoms_spatial_coordinates_z(pr, data) ==
    LET z_idx == pr._atoms_spatial_coordinates_indices[3]
    IN  IF \E r \in 1..Len(data) : z_idx >= Len(data[r])
        THEN [status |-> "IndexError", val |-> <<>>]
        ELSE [status |-> "ok", val |-> Column(data, z_idx)]

SeqMin(z) == CHOOSE v \in {z[i] : i \in 1..Len(z)} : \A i \in 1..Len(z) : v <= z[i]
SeqMax(z) == CHOOSE v \in {z[i] : i \in 1..Len(z)} : \A i \in 1..Len(z) : v >= z[i]

\* variant: the margin is the whole 5.0 instead of 2.5
_njit_group_indices_WideMargin(z) ==
    [lower |-> [i \in 1..Len(z) |-> z[i] <= SeqMin(z) + 2 * plane_margin],
     upper |-> [i \in 1..Len(z) |-> z[i] >= SeqMax(z) - 2 * plane_margin]]

\* BaseParser._njit_group_indices(z): the masks (lower, upper) of a non-empty z
_njit_group_indices(z) ==
    LET z_min == SeqMin(z)
        z_max == SeqMax(z)
    IN  [lower |-> [i \in 1..Len(z) |-> z[i] <= z_min + plane_margin],
         upper |-> [i \in 1..Len(z) |-> z[i] >= z_max - plane_margin]]

\* np.where(mask)[0]: the 0-based positions where the mask is true
Where(mask) == {i - 1 : i \in {k \in 1..Len(mask) : mask[k]}}

\* variant: the rows that are not in both planes
nanoparticle_mask_NotBoth(lower, upper) ==
    [i \in 1..Len(lower) |-> ~(lower[i] /\ upper[i])]

\* nanoparticle = ~(lower | upper)
nanoparticle_mask(lower, upper) == [i \in 1..Len(lower) |-> ~(lower[i] \/ upper[i])]

\* the value BaseParser.get_atom_group_indices(data) returns, or what it raises
atom_group_indices(pr, data) ==
    LET z == get_atoms_spatial_coordinates_z(pr, data)
    IN  IF z.status # "ok" THEN [status |-> z.status, val |-> <<>>]
        ELSE IF z.val = <<>> THEN [status |-> "ValueError", val |-> <<>>]
        ELSE LET m == _njit_group_indices(z.val)
             IN  [status |-> "ok",
                  val |-> [lower_plane  |-> Where(m.lower),
                           upper_plane  |-> Where(m.upper),
                           nanoparticle |-> Where(nanoparticle_mask(m.lower, m.upper)),
                           all          |-> 0..(Len(data) - 1)]]

\* BaseParser.get_atom_group_indices(data), with the table the caller got from
\* its last get_data
get_atom_group_indices(p) ==
    /\ IsOpen(p)
    /\ ret.op = "get_data" /\ ret.p = p /\ ret.status = "ok"
    /\ LET g == atom_group_indices(parser[p], ret.val)
       IN  ret' = [Ret("get_atom_group_indices", p, TRUE, ret.arg, "", g.status,
                       g.val, FALSE, ret.key) EXCEPT !.isInt = ret.isInt]
    /\ UNCHANGED << files, analyzer, parser, cache, recency, evicted, cursor, bulk >>

\* variant: only the oldest entry is dropped
cache_clear_oldest(c) == IF c = <<>> THEN c ELSE Tail(c)

\* _load_timestep_data.cache_clear()
cache_clear(c) == <<>>

\* BaseParser.clear_data_cache
clear_data_cache(p) ==
    /\ IsOpen(p)
    /\ cache' = cache_clear(cache)
    /\ recency' = <<>>
    /\ evicted' = NoKey
    /\ ret' = Ret("clear_data_cache", p, TRUE, Len(cache), "", "ok", <<>>, FALSE, NoTs)
    /\ UNCHANGED << files, analyzer, parser, cursor, bulk >>

\* ------------------------------------------------------------------ bulk loader
\* the args list of BaseParser._load_all_timesteps: one (start, end, n_cols)
\* per value of _timestep_atom_info, each a future of exe.map
BulkArgs(pr) ==
    [i \in 1..Len(pr._timestep_atom_info) |->
        [start |-> pr._timestep_atom_info[i].start,
         end |-> pr._timestep_atom_info[i].end,
         n_cols |-> Len(pr._headers), st |-> "pending", val |-> <<>>, msg |-> <<>>]]

Running(tasks) == {i \in 1..Len(tasks) : tasks[i].st = "running"}
Pending(tasks) == {i \in 1..Len(tasks) : tasks[i].st = "pending"}
Untaken(tasks) == {i \in 1..Len(tasks) : tasks[i].st # "taken"}
Finished(tasks) == {i \in 1..Len(tasks) : tasks[i].st \in {"ok", "ValueError"}}

\* variant: results are taken as they complete (as_completed), latest index first
NextResultCompleted(b) ==
    IF Finished(b.tasks) = {} THEN 0
    ELSE CHOOSE i \in Finished(b.tasks) : \A j \in Finished(b.tasks) : j <= i

\* the future whose result the iterator of exe.map yields next: the futures in
\* submission order (0 when every result is taken)
NextResult(b) ==
    IF Untaken(b.tasks) = {} THEN 0
    ELSE CHOOSE i \in Untaken(b.tasks) : \A j \in Untaken(b.tasks) : i <= j

\* list(...) appends the result the iterator yields
TakeResult(b, i) ==
    [b EXCEPT !.out = Append(@, b.tasks[i].val),
              !.tasks[i].st = "taken", !.tasks[i].val = <<>>]

\* variant: a failed decode is skipped and the iteration goes on
RaiseResultSwallow(b, i) == [b EXCEPT !.tasks[i].st = "taken", !.tasks[i].val = <<>>]

\* future.result() raises: the iterator stops, the futures that have not
\* started are cancelled and the exception leaves the with block
RaiseResult(b, i) ==
    [b EXCEPT !.failed = TRUE, !.err = i,
              !.tasks = [k \in 1..Len(b.tasks) |->
                            IF b.tasks[k].st = "pending"
                            THEN [b.tasks[k] EXCEPT !.st = "cancelled"]
                            ELSE b.tasks[k]]]

\* variant: the bulk load first decodes the first timestep through the cached
\* loader
_load_all_timesteps_ViaCache(p) ==
    /\ IsOpen(p)
    /\ bulk' = [NoBulk EXCEPT !.active = TRUE, !.p = p, !.tasks = BulkArgs(parser[p])]
    /\ ret' = Ret("get_all", p, TRUE, 0, "", "pending", <<>>, FALSE, NoTs)
    /\ cache' = _get_timestep_data(cache, parser[p], files[p], p,
                                   IF NTimesteps(p) > 0 THEN 0 ELSE -1).cache
    /\ UNCHANGED << files, analyzer, parser, recency, evicted, cursor >>

\* BaseParser.get_data(None): _load_all_timesteps creates the pool and submits
_load_all_timesteps(p) ==
    /\ IsOpen(p)
    /\ bulk' = [NoBulk EXCEPT !.active = TRUE, !.p = p, !.tasks = BulkArgs(parser[p])]
    /\ ret' = Ret("get_all", p, TRUE, 0, "", "pending", <<>>, FALSE, NoTs)
    /\ UNCHANGED << files, analyzer, parser, cache, recency, evicted, cursor >>

\* a free worker process takes the oldest queued call
WorkerStart ==
    /\ bulk.active
    /\ Pending(bulk.tasks) # {}
    /\ Cardinality(Running(bulk.tasks)) < MaxWorkers
    /\ LET i == CHOOSE i \in Pending(bulk.tasks) : \A j \in Pending(bulk.tasks) : i <= j
       IN  bulk' = [bulk EXCEPT !.tasks[i].st = "running"]
    /\ UNCHANGED << files, analyzer, parser, cache, recency, evicted, cursor, ret >>

\* a worker finishes _load_segment and the future gets its result or exception
WorkerFinish(i) ==
    /\ bulk.active
    /\ i \in Running(bulk.tasks)
    /\ LET t == bulk.tasks[i]
           r == _load_segment(files[bulk.p], t.start, t.end, t.n_cols)
       IN  bulk' = [bulk EXCEPT !.tasks[i].st = r.status, !.tasks[i].val = r.val,
                                !.tasks[i].msg = r.msg,
                                !.ooo = @ \/ \E j \in Running(bulk.tasks) : j < i]
    /\ UNCHANGED << files, analyzer, parser, cache, recency, evicted, cursor, ret >>

\* list(exe.map(...)) gets the next future's result or exception
BulkCollect ==
    /\ bulk.active
    /\ ~bulk.failed
    /\ NextResult(bulk) \in Finished(bulk.tasks)
    /\ bulk' = IF bulk.tasks[NextResult(bulk)].st = "ok"
               THEN TakeResult(bulk, NextResult(bulk))
               ELSE RaiseResult(bulk, NextResult(bulk))
    /\ UNCHANGED << files, analyzer, parser, cache, recency, evicted, cursor, ret >>

\* the with block ends (shutdown waits for the running workers) and
\* _load_all_timesteps returns the list or lets the exception through
BulkReturn ==
    /\ bulk.active
    /\ Running(bulk.tasks) = {}
    /\ \/ /\ bulk.failed
          /\ ret' = [Ret("get_all", bulk.p, TRUE, bulk.err, "", "ValueError", <<>>,
                         FALSE, NoTs) EXCEPT !.ooo = bulk.ooo,
                                             !.msg = bulk.tasks[bulk.err].msg]
       \/ /\ ~bulk.failed
          /\ Untaken(bulk.tasks) = {}
          /\ ret' = [Ret("get_all", bulk.p, TRUE, 0, "", "ok", bulk.out, FALSE, NoTs)
                        EXCEPT !.ooo = bulk.ooo]
    /\ bulk' = NoBulk
    /\ UNCHANGED << files, analyzer, parser, cache, recency, evicted, cursor >>

\* ------------------------------------------------------------------ analyzer
\* pc: idle, seq (inside _run_analyses_sequential), par (inside
\* run_analysis_parallel) or done; n: len(analyses_to_run); ran: the analyses
\* that have finished; success: the local of the running method;
\* batch_success: the local `success` of _execute_parallel_batch, "unbound"
\* until it is assigned; pending: the futures of the batch that as_completed
\* has not yielded; allok, last: history, every analysis so far returned a
\* truthy value, and the outcome of the last one; result: what the run
\* returned or raised
NoAnalyzer ==
    [pc |-> "idle", memory_efficient |-> TRUE, n |-> 0, ran |-> 0, success |-> TRUE,
     batched |-> FALSE, batch_size |-> 0, pending |-> 0, batch_success |-> "unbound",
     allok |-> TRUE, last |-> "", result |-> ""]

\* what function(timestep) does: returns a truthy value, a falsy one, or raises
Outcomes == {"truthy", "falsy", "raises"}

Max(a, b) == IF a >= b THEN a ELSE b

\* Analyzer._run_analyses_sequential(analyses_to_run, timestep): entry, up to
\* the first call of an analysis function
_run_analyses_sequential(n, memory_efficient) ==
    /\ IsOpen("A")
    /\ analyzer.pc \in {"idle", "done"}
    /\ analyzer' = IF n = 0
                   THEN [NoAnalyzer EXCEPT !.pc = "done",
                                           !.memory_efficient = memory_efficient,
                                           !.result = "True"]
                   ELSE [NoAnalyzer EXCEPT !.pc = "seq", !.n = n,
                                           !.memory_efficient = memory_efficient]
    /\ UNCHANGED << files, parser, cache, recency, evicted, cursor, bulk, ret >>

\* the analysis function that is running reads a timestep through self.parser
AnalysisQuery(timestep_idx) ==
    /\ analyzer.pc = "seq"
    /\ get_data("A", TRUE, timestep_idx)

\* one iteration of the loop of _run_analyses_sequential from the return of
\* function(timestep) (lines 139-150), then the next iteration or the return
AnalysisEnds(outcome) ==
    LET clears  == outcome # "raises" /\ analyzer.memory_efficient
        success == analyzer.success /\ outcome = "truthy"
        last    == analyzer.ran + 1 = analyzer.n
    IN  /\ analyzer.pc = "seq"
        /\ ~bulk.active
        /\ analyzer' = [analyzer EXCEPT !.ran = @ + 1, !.success = success,
                                        !.allok = @ /\ outcome = "truthy",
                                        !.last = outcome,
                                        !.pc = IF last THEN "done" ELSE "seq",
                                        !.result = IF ~last THEN ""
                                                   ELSE IF success THEN "True"
                                                   ELSE "False"]
        /\ cache' = IF clears THEN cache_clear(cache) ELSE cache
        /\ recency' = IF clears THEN <<>> ELSE recency
        /\ evicted' = IF clears THEN NoKey ELSE evicted
        /\ ret' = IF clears
                  THEN Ret("clear_data_cache", "A", TRUE, Len(cache), "", "ok", <<>>,
                           FALSE, NoTs)
                  ELSE ret
        /\ UNCHANGED << files, parser, cursor, bulk >>

\* Analyzer.run_analysis_parallel(analyses_to_run, timestep) with
\* self.max_workers = cpu: entry, up to the submission of the first batch
run_analysis_parallel(n, cpu, memory_efficient) ==
    LET max_workers == Min(n, cpu)
        batched     == memory_efficient /\ n > max_workers
        batch_size  == IF batched THEN Max(1, max_workers \div 2) ELSE n
    IN  /\ IsOpen("A")
        /\ analyzer.pc \in {"idle", "done"}
        /\ analyzer' = [NoAnalyzer EXCEPT !.pc = "par", !.n = n,
                                          !.memory_efficient = memory_efficient,
                                          !.batched = batched,
                                          !.batch_size = batch_size,
                                          !.pending = Min(batch_size, n)]
        /\ UNCHANGED << files, parser, cache, recency, evicted, cursor, bulk, ret >>

\* one iteration of the as_completed loop of _execute_parallel_batch (lines
\* 177-188): `success` is assigned only when the analysis failed or raised
as_completed(outcome) ==
    /\ analyzer.pc = "par"
    /\ analyzer.pending > 0
    /\ analyzer' = [analyzer EXCEPT !.pending = @ - 1, !.ran = @ + 1,
                                    !.batch_success = IF outcome = "truthy" THEN @
                                                      ELSE "False",
                                    !.allok = @ /\ outcome = "truthy",
                                    !.last = outcome]
    /\ UNCHANGED << files, parser, cache, recency, evicted, cursor, bulk, ret >>

\* `return success` of _execute_parallel_batch (line 189), an UnboundLocalError
\* when the name was never assigned, and what run_analysis_parallel does with
\* the value (lines 162-168)
_execute_parallel_batch ==
    LET unbound == analyzer.batch_success = "unbound"
        more    == analyzer.batched /\ analyzer.ran < analyzer.n
        clears  == ~unbound /\ analyzer.batched
    IN  /\ analyzer.pc = "par"
        /\ analyzer.pending = 0
        /\ analyzer' =
              IF unbound
              THEN [analyzer EXCEPT !.pc = "done", !.result = "UnboundLocalError"]
              ELSE IF more
              THEN [analyzer EXCEPT !.success = FALSE, !.batch_success = "unbound",
                                    !.pending = Min(analyzer.batch_size,
                                                    analyzer.n - analyzer.ran)]
              ELSE [analyzer EXCEPT !.success = FALSE, !.pc = "done",
                                    !.result = "False"]
        /\ cache' = IF clears THEN cache_clear(cache) ELSE cache
        /\ recency' = IF clears THEN <<>> ELSE recency
        /\ evicted' = IF clears THEN NoKey ELSE evicted
        /\ ret' = IF clears
                  THEN Ret("clear_data_cache", "A", TRUE, Len(cache), "", "ok", <<>>,
                           FALSE, NoTs)
                  ELSE ret
        /\ UNCHANGED << files, parser, cursor, bulk >>

\* ------------------------------------------------------------------ specifications
ColumnNames == {"z", "c_cna", "vx"}
AnalysisTypes == {"cna", "ptm"}
Ids(p) == {parser[p]._timesteps[k] : k \in 1..NTimesteps(p)}
IntArgs(p) == IdxArgs(NTimesteps(p)) \cup Ids(p)
\* the ids of the file and numbers that are no id of it
OtherArgs(p) == Ids(p) \cup ({t + 1 : t \in Ids(p)} \ Ids(p))

BlockSeqs == UNION {[1..n -> BlockSpecs] : n \in 0..MaxBlocks}

NoParsers == [p \in Parsers |-> [NewParser EXCEPT !.state = "absent"]]

InitWith(fs) ==
    /\ files = fs
    /\ parser = [p \in Parsers |-> IF fs[p] = NoFile THEN NoParsers[p] ELSE NewParser]
    /\ cache = <<>>
    /\ recency = <<>>
    /\ evicted = NoKey
    /\ cursor = [p \in Parsers |-> 0]
    /\ bulk = NoBulk
    /\ ret = NoRet
    /\ analyzer = NoAnalyzer

\* one parser, constructed on any file of at most MaxBlocks blocks
Init == \E bs \in BlockSeqs : InitWith([p \in Parsers |-> IF p = "A" THEN MkFile(bs) ELSE NoFile])

NextGet ==
    \/ \E p \in Parsers : __init__(p)
    \/ \E p \in Parsers : \E i \in IntArgs(p) : get_data(p, TRUE, i)
    \/ \E p \in Parsers : clear_data_cache(p)

NextQuery ==
    \/ \E p \in Parsers : \E i \in OtherArgs(p) : get_data(p, FALSE, i)
    \/ \E p \in Parsers : \E c \in ColumnNames : \E i \in IdxArgs(NTimesteps(p)) :
            get_column_data(p, c, i)
    \/ \E p \in Parsers : \E a \in AnalysisTypes : \E i \in IdxArgs(NTimesteps(p)) :
            get_analysis_data(p, a, i)
    \/ \E p \in Parsers : \E i \in IdxArgs(NTimesteps(p)) : get_atom_count(p, i)

NextBulk ==
    \/ \E p \in Parsers : _load_all_timesteps(p)
    \/ WorkerStart
    \/ \E i \in 1..(lru_maxsize + ExtraBlocks) : WorkerFinish(i)
    \/ BulkCollect
    \/ BulkReturn

Next == NextGet \/ NextQuery \/ NextBulk

Spec == Init /\ [][Next]_vars

\* a file with more timesteps than the cache holds
BigFile ==
    MkFile([j \in 1..(lru_maxsize + ExtraBlocks) |-> [id |-> 10 * (j - 1), kind |-> "full"]])

InitLRU == InitWith([p \in Parsers |-> IF p = "A" THEN BigFile ELSE NoFile])

\* one parser on the long file: get_data by position and clear_data_cache
SpecLRU == InitLRU /\ [][NextGet]_vars

NextGetBulk == NextGet \/ NextBulk

\* one parser on the long file: get_data, clear_data_cache and bulk loads
SpecLRUBulk == InitLRU /\ [][NextGetBulk]_vars

\* two parsers that share the class's cache, on files with a common timestep
\* id on different blocks
TwoFileA == MkFile(<< [id |-> 0, kind |-> "full"], [id |-> 2, kind |-> "full"] >>)
TwoFileB == MkFile([j \in 1..SmallBlocks |-> [id |-> 2 * (SmallBlocks - j), kind |-> "full"]])

InitTwo == InitWith([p \in Parsers |-> IF p = "A" THEN TwoFileA ELSE TwoFileB])

SpecTwo == InitTwo /\ [][Next]_vars

\* the indexer alone, on any file of at most IndexBlocks blocks of any kind
IndexKinds == BlockKinds \cup {"nocols"}
IndexSeqs == UNION {[1..n -> [id : TimestepIds, kind : IndexKinds]] : n \in 0..IndexBlocks}

InitIndex ==
    \E bs \in IndexSeqs : InitWith([p \in Parsers |-> IF p = "A" THEN MkFile(bs) ELSE NoFile])

NextIndex == \E p \in Parsers : __init__(p)

SpecIndex == InitIndex /\ [][NextIndex]_vars

\* the schema resolver and the channel accessor, on a one-block file with any
\* schema of at most MaxCols columns, or with every column the resolver knows
ColumnPool == {"x", "y", "z", "c_cna", "c_ptm[1]", "c_ptm[2]"}
AllColumns ==
    << "id", "type", "x", "y", "z", "c_cna",
       "c_ptm[1]", "c_ptm[2]", "c_ptm[3]", "c_ptm[4]", "c_ptm[5]", "c_ptm[6]" >>
Schemas ==
    {h \in UNION {[1..n -> ColumnPool] : n \in 0..MaxCols} :
        \A i, j \in 1..Len(h) : h[i] = h[j] => i = j} \cup {AllColumns}
SchemaChannels == {"cna", "ptm", "coord"}

SchemaKinds == {"full", "trunc"}

InitSchema ==
    \E h \in Schemas : \E k \in SchemaKinds :
        InitWith([p \in Parsers |->
            IF p = "A" THEN MkFileH(h, << [id |-> 0, kind |-> k] >>) ELSE NoFile])

NextSchema ==
    \/ \E p \in Parsers : __init__(p)
    \/ \E p \in Parsers : \E a \in SchemaChannels : \E i \in IdxArgs(NTimesteps(p)) :
            get_analysis_data(p, a, i)
    \/ \E p \in Parsers : \E i \in IntArgs(p) : get_data(p, TRUE, i)
    \/ NextBulk

SpecSchema == InitSchema /\ [][NextSchema]_vars

\* atom grouping, on a one-block file whose rows have any z coordinates
ZValues == {ZStep * i : i \in 0..MaxZ}

\* a one-block file (timestep 0) with the columns hdr and one row per z
GroupFileH(hdr, zs) ==
    << TsLine, NumLine(<< 0 >>), ItemLine, NumLine(<< Len(zs) >>), AtomsLine(hdr) >>
    \o [r \in 1..Len(zs) |->
            NumLine([c \in 1..Len(hdr) |->
                        CASE hdr[c] = "z"    -> zs[r]
                          [] hdr[c] = "id"   -> r
                          [] hdr[c] = "type" -> 1
                          [] OTHER           -> 0])]

GroupFile(zs) == GroupFileH(Cols, zs)

InitGroup ==
    \E zs \in [1..GroupRows -> ZValues] :
        InitWith([p \in Parsers |-> IF p = "A" THEN GroupFile(zs) ELSE NoFile])

NextGroup ==
    \/ \E p \in Parsers : __init__(p)
    \/ \E p \in Parsers : \E i \in IntArgs(p) : get_data(p, TRUE, i)
    \/ \E p \in Parsers : get_atom_group_indices(p)

SpecGroup == InitGroup /\ [][NextGroup]_vars

\* atom grouping on files whose schema has x and z but no y
ScenarioCols == << "id", "type", "x", "z" >>

InitScenario ==
    \E zs \in [1..GroupRows -> ZValues] :
        InitWith([p \in Parsers |-> IF p = "A" THEN GroupFileH(ScenarioCols, zs) ELSE NoFile])

SpecScenario == InitScenario /\ [][NextGroup]_vars

\* an Analyzer on a two-block file: sequential and parallel runs of up to
\* MaxAnalyses analyses that read timesteps through the parser
InitAnalyzer == InitWith([p \in Parsers |-> IF p = "A" THEN TwoFileA ELSE NoFile])

NextAnalyzer ==
    \/ __init__("A")
    \/ \E n \in 0..MaxAnalyses : \E m \in BOOLEAN : _run_analyses_sequential(n, m)
    \/ \E i \in IntArgs("A") : AnalysisQuery(i)
    \/ \E o \in Outcomes : AnalysisEnds(o)
    \/ \E n \in 1..MaxAnalyses : \E c \in 1..MaxCpu : \E m \in BOOLEAN :
            run_analysis_parallel(n, c, m)
    \/ \E o \in Outcomes : as_completed(o)
    \/ _execute_parallel_batch

SpecAnalyzer == InitAnalyzer /\ [][NextAnalyzer]_vars

\* every operation, on two-block files whose ATOMS lines may name different
\* columns, or none
MixedSchemas == {<<>>, Cols, ScenarioCols}

MixedBlock(j, id, hdr) ==
    IF hdr = <<>> THEN BlockLinesH(j, [id |-> id, kind |-> "nocols"], Cols)
    ELSE BlockLinesH(j, [id |-> id, kind |-> "full"], hdr)

InitMixed ==
    \E h1, h2 \in MixedSchemas :
        InitWith([p \in Parsers |->
            IF p = "A" THEN MixedBlock(1, 0, h1) \o MixedBlock(2, 2, h2) ELSE NoFile])

SpecMixed == InitMixed /\ [][Next]_vars

\* ------------------------------------------------------------------ properties
GetOps == {"get_data", "get_column_data", "get_analysis_data", "get_atom_count"}

\* the decode of the byte range the index records for timestep t of parser p
Decoded(p, t) ==
    LET r == DictGet(parser[p]._timestep_atom_info, t)
    IN  _load_segment(files[p], r.start, r.end, Len(parser[p]._headers))

Indexed(p, t) == DictHas(parser[p]._timestep_atom_info, t)

\* the ranges of p's index, by position, whose decode fails
Failing(p) ==
    LET info == parser[p]._timestep_atom_info
    IN  {i \in 1..Len(info) :
            _load_segment(files[p], info[i].start, info[i].end,
                          Len(parser[p]._headers)).status # "ok"}

CachedOf(c, p) == {k \in CacheKeys(c) : k[1] = p}

\* C1 (cache transparency): whatever get_data, clear_data_cache and bulk loads
\* came before, and whether the call is a cache hit, a decode after an eviction
\* or a decode after a clear, a get_data that resolves to an indexed timestep
\* returns exactly the decode of that timestep's byte range.
C1_CacheTransparency ==
    (ret.op = "get_data" /\ ret.key # NoTs /\ Indexed(ret.p, ret.key[1]))
    => /\ ret.status = Decoded(ret.p, ret.key[1]).status
       /\ ret.val = Decoded(ret.p, ret.key[1]).val

\* a get_data that decoded again a timestep the cache had evicted
C1_Witness ==
    ret.op = "get_data" /\ ret.status = "ok" /\ ret.again /\ ~ret.hit

\* C2 (bulk/lazy equivalence): the list get_data() returns has one table per
\* entry of get_timesteps(), and the table at position i equals get_data(i).
C2_BulkLazyEquivalence ==
    (ret.op = "get_all" /\ ret.status = "ok")
    => LET p == ret.p
           n == NTimesteps(p)
       IN  /\ Len(ret.val) = n
           /\ \A i \in 0..(n - 1) :
                LET g == _get_timestep_data(<<>>, parser[p], files[p], p,
                                            TimestepPos(n, i))
                IN  g.status = "ok" /\ ret.val[i + 1] = g.val

\* C3 (bulk-load ordering): in whatever order the workers finish, the list a
\* bulk load returns has one table per indexed byte range, and the table at
\* position i is the decode of the i-th range of the index.
C3_BulkOrder ==
    (ret.op = "get_all" /\ ret.status = "ok")
    => LET p == ret.p
           info == parser[p]._timestep_atom_info
       IN  /\ Len(ret.val) = Len(info)
           /\ \A i \in 1..Len(info) :
                ret.val[i] = _load_segment(files[p], info[i].start, info[i].end,
                                           Len(parser[p]._headers)).val

\* a bulk load of several ranges returned after a later range finished first
C3_Witness ==
    ret.op = "get_all" /\ ret.status = "ok" /\ ret.ooo /\ Len(ret.val) >= 2

\* C4 (bulk-load failure): when the decode of some byte range fails the bulk
\* load raises the error of the first failing range and returns no list; it
\* returns a list only when every range decodes, and then the full one.
C4_BulkAllOrNothing ==
    (ret.op = "get_all" /\ ret.status # "pending")
    => IF Failing(ret.p) = {}
       THEN ret.status = "ok"
            /\ Len(ret.val) = Len(parser[ret.p]._timestep_atom_info)
       ELSE /\ ret.status = "ValueError"
            /\ ret.val = <<>>
            /\ ret.arg \in Failing(ret.p)
            /\ \A i \in Failing(ret.p) : ret.arg <= i

\* a bulk load that raised although another range of the file decodes
C4_Witness ==
    /\ ret.op = "get_all"
    /\ ret.status = "ValueError"
    /\ \E i \in 1..Len(parser[ret.p]._timestep_atom_info) : i \notin Failing(ret.p)

\* C5 (bounded LRU cache): the cache never holds more than lru_maxsize tables,
\* and a get that misses while the cache is full evicts exactly one entry, the
\* one whose last access is the oldest, and inserts the new one.
C5_BoundedLRU ==
    [][ /\ Len(cache') <= lru_maxsize
        /\ (/\ ret'.op = "get_data"
            /\ ret'.status = "ok"
            /\ CacheKey(ret'.p, ret'.key[1]) \notin CacheKeys(cache)
            /\ Len(cache) = lru_maxsize)
           => /\ CacheKeys(cache) \ CacheKeys(cache') = {Head(recency)}
              /\ CacheKeys(cache') =
                    (CacheKeys(cache) \ {Head(recency)})
                        \cup {CacheKey(ret'.p, ret'.key[1])} ]_vars

\* a miss on the full cache has just evicted an entry
C5_Witness ==
    /\ ret.op = "get_data" /\ ret.status = "ok" /\ ~ret.hit
    /\ Len(cache) = lru_maxsize
    /\ evicted # NoKey /\ evicted \notin CacheKeys(cache)

\* C6 (clear drops every entry): right after clear_data_cache the cache is
\* empty, and the next successful get runs the decoder instead of hitting.
C6_ClearDropsAll ==
    [][ /\ (ret'.op = "clear_data_cache" => cache' = <<>>)
        /\ (ret.op = "clear_data_cache" /\ ret'.op \in GetOps /\ ret'.status = "ok")
           => ~ret'.hit ]_vars

\* clear_data_cache has just dropped at least one cached table
C6_Witness == ret.op = "clear_data_cache" /\ ret.arg > 0

\* C7 (cache isolation): a get_data or clear_data_cache on one parser leaves
\* the set of timesteps every other parser has cached as it was.
C7_CacheIsolation ==
    [][ \A a \in Parsers :
          (ret'.p = a /\ ret'.op \in {"get_data", "clear_data_cache"})
          => \A b \in Parsers \ {a} : CachedOf(cache', b) = CachedOf(cache, b) ]_vars

\* whether the call recorded in ret got as far as resolving its index
ReachedIndex == ~(ret.status = "ValueError" /\ ret.key = NoTs)

\* C8 (positional index): an index i in 0..n-1 reads position i, an index in
\* -n..-1 reads position n+i, and every other index fails with IndexError.
C8_PositionalIndex ==
    (ret.op \in GetOps /\ ret.isInt /\ ReachedIndex)
    => LET ts == parser[ret.p]._timesteps
           n  == Len(ts)
           i  == ret.arg
       IN  /\ (0 <= i /\ i < n) => ret.key = << ts[i + 1] >>
           /\ (-n <= i /\ i < 0) => ret.key = << ts[n + i + 1] >>
           /\ (i < -n \/ i >= n) => ret.status = "IndexError"

\* C9 (get by timestep id): get_data with an id of get_timesteps() returns the
\* decode of that timestep's own byte range.
C9_GetById ==
    (ret.op = "get_data" /\ ret.arg \in Ids(ret.p) /\ Indexed(ret.p, ret.arg))
    => /\ ret.status = Decoded(ret.p, ret.arg).status
       /\ ret.val = Decoded(ret.p, ret.arg).val

\* C10 (index bijection): after indexing, the timestep list has no id twice and
\* its ids are exactly the keys of the byte-range map.
C10_IndexBijection ==
    \A p \in Parsers :
        parser[p].state = "open"
        => LET ts == parser[p]._timesteps
               info == parser[p]._timestep_atom_info
           IN  /\ \A i, j \in 1..Len(ts) : ts[i] = ts[j] => i = j
               /\ Ids(p) = {info[k].ts : k \in 1..Len(info)}

\* BaseParser.__init__ has run on p's file, and returned or raised
AfterInit(p) == parser[p].state \in {"open", "failed"}

\* the offsets of the timestep markers of a file
Markers(f) == {j \in 0..(Len(f) - 1) : f[j + 1].k = "TS"}

\* C11 (byte ranges): every recorded range has start <= end <= file size, the
\* recorded ranges do not overlap, and they are strictly increasing in file
\* offset in the order of the timestep list (and of the map).
C11_RangesOrdered ==
    \A p \in Parsers :
        parser[p].state = "open"
        => LET ts   == parser[p]._timesteps
               info == parser[p]._timestep_atom_info
               R(i) == DictGet(info, ts[i])
           IN  /\ \A k \in 1..Len(info) :
                    /\ 0 <= info[k].start
                    /\ info[k].start <= info[k].end
                    /\ info[k].end <= Len(files[p])
               /\ \A k, l \in 1..Len(info) :
                    k < l => info[k].end <= info[l].start
               /\ \A i, j \in 1..Len(ts) :
                    (i < j /\ DictHas(info, ts[i]) /\ DictHas(info, ts[j]))
                    => (R(i).start < R(j).start /\ R(i).end <= R(j).start)

\* every timestep marker of the file starts a block with an integer id line
\* and an ATOMS line that names columns
CompleteBlocks(f) ==
    \A j \in Markers(f) :
        /\ IntOk(ReadLine(f, j + 1))
        /\ \E a \in (j + 1)..(Len(f) - 1) :
              /\ f[a + 1].k = "ATOMS"
              /\ f[a + 1].hdr # <<>>
              /\ \A m \in Markers(f) : ~(j < m /\ m < a)

\* C12 (index completeness): for a file of N >= 1 complete blocks, the timestep
\* list and the byte-range map both have as many entries as the file has
\* timestep markers.
C12_IndexComplete ==
    \A p \in Parsers :
        (AfterInit(p) /\ Markers(files[p]) # {} /\ CompleteBlocks(files[p]))
        => /\ parser[p].state = "open"
           /\ Len(parser[p]._timesteps) = Cardinality(Markers(files[p]))
           /\ Len(parser[p]._timestep_atom_info) = Cardinality(Markers(files[p]))

\* C13 (malformed index): when the line after some timestep marker is not an
\* integer, the open fails; no parser comes back with an index that stops
\* before the malformed block.
C13_MalformedIndexFails ==
    \A p \in Parsers :
        (AfterInit(p) /\ \E j \in Markers(files[p]) : ~IntOk(ReadLine(files[p], j + 1)))
        => parser[p].state = "failed"

\* C14 (no schema found): opening a file with no ATOMS line that names
\* columns (a file with zero blocks included) raises ValueError, and every
\* parser that was constructed has a non-empty schema, taken from an ATOMS
\* line of its file.
C14_NoSchemaFound ==
    \A p \in Parsers :
        AfterInit(p)
        => LET f == files[p]
               named == {a \in 1..Len(f) : f[a].k = "ATOMS" /\ f[a].hdr # <<>>}
           IN  /\ named = {} => parser[p].state = "failed"
               /\ parser[p].state = "failed"
                    => (ret.op = "__init__" /\ ret.status = "ValueError")
               /\ parser[p].state = "open"
                    => /\ parser[p]._headers # <<>>
                       /\ \E a \in named : parser[p]._headers = f[a].hdr

\* the open of a file that has timestep blocks but no schema raised
C14_Witness ==
    /\ parser["A"].state = "failed"
    /\ ret.op = "__init__" /\ ret.status = "ValueError"
    /\ Markers(files["A"]) # {}
    /\ parser["A"]._timesteps # <<>>

\* the entries of p's channel map with the given name (none, or one)
ChannelEntries(p, name) ==
    {k \in 1..Len(parser[p]._analysis_column_map) :
        parser[p]._analysis_column_map[k].name = name}

\* the entry's indices are the positions of exactly the given columns, in order
MapsTo(p, k, cols) ==
    LET idx == parser[p]._analysis_column_map[k].idx
    IN  /\ Len(idx) = Len(cols)
        /\ \A c \in 1..Len(cols) :
              /\ idx[c] + 1 \in 1..Len(parser[p]._headers)
              /\ parser[p]._headers[idx[c] + 1] = cols[c]

\* C15 (channel map inclusion): a scalar channel is in the map iff its column
\* is in the schema, with that column's index; a multi-column channel is in the
\* map only if all its columns are in the schema, with their indices in the
\* declared order.
C15_ChannelInclusion ==
    \A p \in Parsers :
        parser[p].state = "open"
        => \A i \in 1..Len(analysis_headers) :
              LET a == analysis_headers[i]
                  E == ChannelEntries(p, a.name)
                  present == {c \in 1..Len(a.cols) : Contains(parser[p]._headers, a.cols[c])}
              IN  /\ Cardinality(E) <= 1
                  /\ ~a.multi => (E # {} <=> present # {})
                  /\ \A k \in E :
                        /\ present = 1..Len(a.cols)
                        /\ MapsTo(p, k, a.cols)

\* C16 (channel absence): a channel none of whose columns is in the schema has
\* no key in the map, no key has an empty value, the open succeeds all the
\* same, and get_analysis_data for a channel that has no key raises ValueError
\* and returns no view.
C16_ChannelAbsence ==
    \A p \in Parsers :
        /\ (AfterInit(p) /\ Markers(files[p]) # {} /\ CompleteBlocks(files[p]))
           => parser[p].state = "open"
        /\ parser[p].state = "open"
           => /\ \A i \in 1..Len(analysis_headers) :
                    (\A c \in 1..Len(analysis_headers[i].cols) :
                        ~Contains(parser[p]._headers, analysis_headers[i].cols[c]))
                    => ChannelEntries(p, analysis_headers[i].name) = {}
              /\ \A k \in 1..Len(parser[p]._analysis_column_map) :
                    parser[p]._analysis_column_map[k].idx # <<>>
              /\ (ret.op = "get_analysis_data" /\ ret.p = p
                       /\ \A i \in 1..Len(analysis_headers) :
                             analysis_headers[i].name = ret.name
                             => \A c \in 1..Len(analysis_headers[i].cols) :
                                   ~Contains(parser[p]._headers, analysis_headers[i].cols[c]))
                 => (ret.status = "ValueError" /\ ret.val = <<>>)

\* get_analysis_data raised for a channel the schema lacks while another
\* channel is mapped
C16_Witness ==
    /\ parser["A"].state = "open"
    /\ ret.op = "get_analysis_data" /\ ret.name = "ptm" /\ ret.status = "ValueError"
    /\ ChannelEntries("A", "ptm") = {}
    /\ ChannelEntries("A", "cna") # {}

\* C17 (spatial columns): with x, y and z all in the schema the resolved
\* indices are their positions and nothing is printed; otherwise the resolver
\* does not raise, prints the warning and resolves to (2, 3, 4).
C17_SpatialResolution ==
    \A p \in Parsers :
        (AfterInit(p) /\ parser[p]._headers # <<>>)
        => LET H  == parser[p]._headers
               ix == parser[p]._atoms_spatial_coordinates_indices
           IN  /\ parser[p].state = "open"
               /\ Len(ix) = 3
               /\ IF \A n \in {"x", "y", "z"} : Contains(H, n)
                  THEN /\ H[ix[1] + 1] = "x" /\ H[ix[2] + 1] = "y" /\ H[ix[3] + 1] = "z"
                       /\ parser[p].stdout = <<>>
                  ELSE /\ ix = << 2, 3, 4 >>
                       /\ parser[p].stdout = << "WARNING" >>

\* a schema that has x but not z resolved to the default positions
C17_Witness ==
    /\ parser["A"].state = "open"
    /\ Contains(parser["A"]._headers, "x")
    /\ ~Contains(parser["A"]._headers, "z")
    /\ parser["A"]._atoms_spatial_coordinates_indices = << 2, 3, 4 >>
    /\ parser["A"].stdout = << "WARNING" >>

\* the numeric tokens of the i-th byte range of p's index
RangeTokens(p, i) ==
    Tokens(files[p], parser[p]._timestep_atom_info[i].start,
           parser[p]._timestep_atom_info[i].end)

\* the table has Len(toks) / w rows of w columns, filled row by row
ShapedAs(table, toks, w) ==
    /\ Len(table) * w = Len(toks)
    /\ \A r \in 1..Len(table) :
          /\ Len(table[r]) = w
          /\ \A c \in 1..w : table[r][c] = toks[(r - 1) * w + c]

\* C18 (decoder shape): the decode of a range of k tokens against width w is a
\* table of k / w rows and w columns in row-major token order when w divides
\* k, and a ValueError with no table when it does not; for get_data of one
\* timestep and for every table of a bulk load.
C18_DecoderShape ==
    LET p == ret.p
        w == Len(parser[p]._headers)
        info == parser[p]._timestep_atom_info
    IN  /\ (ret.op = "get_data" /\ ret.key # NoTs /\ Indexed(p, ret.key[1]))
           => LET i == CHOOSE i \in 1..Len(info) : info[i].ts = ret.key[1]
                  toks == RangeTokens(p, i)
              IN  IF Len(toks) % w = 0
                  THEN ret.status = "ok" /\ ShapedAs(ret.val, toks, w)
                  ELSE ret.status = "ValueError" /\ ret.val = <<>>
        /\ (ret.op = "get_all" /\ ret.status # "pending")
           => IF \A i \in 1..Len(info) : Len(RangeTokens(p, i)) % w = 0
              THEN /\ ret.status = "ok"
                   /\ Len(ret.val) = Len(info)
                   /\ \A i \in 1..Len(info) : ShapedAs(ret.val[i], RangeTokens(p, i), w)
              ELSE ret.status = "ValueError" /\ ret.val = <<>>

\* get_data raised the reshape error for a range whose token count is not a
\* multiple of the width
C18_Witness ==
    /\ ret.op = "get_data" /\ ret.status = "ValueError"
    /\ ret.key # NoTs /\ Indexed(ret.p, ret.key[1])
    /\ Len(parser[ret.p]._headers) >= 3

\* C19 (lazy, local decode errors): a file of complete blocks opens and lists
\* every block, truncated data or not; a get_data raises the decode error
\* exactly when the range of the timestep it resolves to does not decode, and
\* returns the decode otherwise, also right after a request that failed.
C19_LazyLocalErrors ==
    /\ \A p \in Parsers :
          (AfterInit(p) /\ Markers(files[p]) # {} /\ CompleteBlocks(files[p]))
          => /\ parser[p].state = "open"
             /\ Len(parser[p]._timesteps) = Cardinality(Markers(files[p]))
    /\ (ret.op = "get_data" /\ ret.key # NoTs /\ Indexed(ret.p, ret.key[1]))
       => IF Decoded(ret.p, ret.key[1]).status = "ok"
          THEN ret.status = "ok" /\ ret.val = Decoded(ret.p, ret.key[1]).val
          ELSE ret.status = "ValueError"

\* a get_data of another timestep succeeded right after a request that raised
\* the decode error
C19_Witness ==
    /\ ret.op = "get_data" /\ ret.status = "ok" /\ ret.afterFail
    /\ Failing(ret.p) # {}

\* C20 (grouping partition): for a non-empty table get_atom_group_indices
\* returns, with all = every row index, lower_plane, upper_plane and
\* nanoparticle whose union is all, and nanoparticle is exactly the rows in
\* neither plane.
C20_GroupingPartition ==
    ret.op = "get_atom_group_indices"
    => LET g == ret.val
           n == Len(Decoded(ret.p, ret.key[1]).val)
       IN  /\ ret.status = "ok"
           /\ n > 0
           /\ g.all = 0..(n - 1)
           /\ g.lower_plane \cup g.upper_plane \cup g.nanoparticle = g.all
           /\ g.nanoparticle = g.all \ (g.lower_plane \cup g.upper_plane)
           /\ g.nanoparticle \cap g.lower_plane = {}
           /\ g.nanoparticle \cap g.upper_plane = {}

\* a grouping with rows in each of the three groups, the planes apart
C20_Witness ==
    /\ ret.op = "get_atom_group_indices" /\ ret.status = "ok"
    /\ ret.val.lower_plane # {}
    /\ ret.val.upper_plane # {}
    /\ ret.val.nanoparticle # {}
    /\ ret.val.lower_plane \cap ret.val.upper_plane = {}

\* the z coordinates, by name, of the table the grouping in ret was given
GroupedZ ==
    Column(Decoded(ret.p, ret.key[1]).val, IndexOf(parser[ret.p]._headers, "z"))

\* the extent z_max - z_min of those coordinates
ZRange == SeqMax(GroupedZ) - SeqMin(GroupedZ)

\* C21 as stated (grouping overlap): whenever z_max - z_min >= 2 * 2.5 the two
\* plane sets are disjoint.
C21_PlanesDisjointFromTwiceMargin ==
    (ret.op = "get_atom_group_indices" /\ ret.status = "ok")
    => (ZRange >= 2 * plane_margin
            => ret.val.lower_plane \cap ret.val.upper_plane = {})

\* C21 amended: a row is in both planes only if z_max - z_min <= 2 * 2.5, and
\* then only a row with z_max - 2.5 <= z <= z_min + 2.5; whenever
\* z_max - z_min > 2 * 2.5 the two plane sets are disjoint.
C21_PlanesDisjointBeyondTwiceMargin ==
    (ret.op = "get_atom_group_indices" /\ ret.status = "ok")
    => /\ ZRange > 2 * plane_margin
            => ret.val.lower_plane \cap ret.val.upper_plane = {}
       /\ \A r \in ret.val.lower_plane \cap ret.val.upper_plane :
            /\ ZRange <= 2 * plane_margin
            /\ GroupedZ[r + 1] <= SeqMin(GroupedZ) + plane_margin
            /\ GroupedZ[r + 1] >= SeqMax(GroupedZ) - plane_margin

\* a table whose extent is exactly twice the margin, with a row in both planes
\* and a row in only one
C21_Witness ==
    /\ ret.op = "get_atom_group_indices" /\ ret.status = "ok"
    /\ ZRange = 2 * plane_margin
    /\ ret.val.lower_plane \cap ret.val.upper_plane # {}
    /\ ret.val.lower_plane # ret.val.upper_plane

\* C22 (grouping scenario): with the schema [id, type, x, z] and timestep 0
\* holding 3 rows with z = [0.0, 5.0, 10.0], the grouping of that table
\* succeeds with row 0 in lower_plane, row 2 in upper_plane and row 1 in
\* nanoparticle.
C22_GroupingScenario ==
    (/\ ret.op = "get_atom_group_indices"
     /\ parser[ret.p]._headers = << "id", "type", "x", "z" >>
     /\ ret.key = << 0 >>
     /\ GroupedZ = << 0, 10, 20 >>)
    => /\ ret.status = "ok"
       /\ 0 \in ret.val.lower_plane
       /\ 2 \in ret.val.upper_plane
       /\ 1 \in ret.val.nanoparticle

\* C23 (bulk load bypasses the cache): no step of a get_data() call with no
\* argument, from the call to its return, reads from or inserts into the decode
\* cache: the cached entries and their recency order stay as they are.
C23_BulkBypassesCache ==
    [][(bulk.active \/ bulk'.active) => (cache' = cache /\ recency' = recency)]_vars

\* a bulk load that returned two tables while the cache holds one of them
C23_Witness ==
    /\ ret.op = "get_all" /\ ret.status = "ok"
    /\ Len(ret.val) = 2
    /\ Len(cache) = 1 /\ Len(recency) = 1

\* a message that names a timestep id or a byte range
Locates(msg) ==
    \E i \in 1..Len(msg) : msg[i] \in {"timestep", "timestep_idx", "start", "end"}

\* C24 (failures identify their location): a decode failure of one timestep, a
\* decode failure in a worker of the bulk load, and a request for an index out
\* of range or an unknown timestep each raise an error whose message carries
\* the offending timestep id or byte range.
C24_FailuresLocated ==
    (ret.op \in {"get_data", "get_all"} /\ ret.status \notin {"ok", "pending", ""})
    => Locates(ret.msg)

\* the columns of the first ATOMS line of a file that has one
FirstHeader(f) ==
    f[CHOOSE a \in 1..Len(f) :
        f[a].k = "ATOMS" /\ \A b \in 1..(a - 1) : f[b].k # "ATOMS"].hdr

\* C25 (schema captured once): the schema, the spatial indices and the channel
\* map of an opened parser are those of the first ATOMS line of its file,
\* whatever columns the later ATOMS lines list, and no operation after the open
\* changes them.
C25_SchemaCapturedOnce ==
    [][\A p \in Parsers :
        /\ parser'[p].state = "open"
            => /\ parser'[p]._headers = FirstHeader(files[p])
               /\ parser'[p]._atoms_spatial_coordinates_indices
                    = _parse_atoms_spatial_coordinates_indices(FirstHeader(files[p]))
               /\ parser'[p]._analysis_column_map
                    = _create_analysis_column_map(FirstHeader(files[p]))
        /\ parser[p].state = "open" => parser'[p] = parser[p]]_vars

QueryOps == {"get_data", "get_column_data", "get_analysis_data"}

\* C26 (query errors are recoverable): a get_data, get_column_data or
\* get_analysis_data call that raises (index out of range, unknown column,
\* unknown channel, reshape mismatch) leaves the timestep list, the byte-range
\* index, the schema, the channel map and the cached tables as they were, and
\* whatever failed before, a query that resolves to an indexed timestep whose
\* range decodes succeeds.
C26_QueryErrorsRecoverable ==
    [][/\ (ret'.op \in QueryOps /\ ret'.status # "ok")
            => (parser' = parser /\ cache' = cache /\ recency' = recency)
       /\ (/\ ret'.op \in QueryOps
           /\ ret.op \in QueryOps /\ ret.status # "ok"
           /\ ret'.key # NoTs /\ Indexed(ret'.p, ret'.key[1])
           /\ Decoded(ret'.p, ret'.key[1]).status = "ok")
            => ret'.status = "ok"]_vars

\* a column query succeeded right after a decode that raised, with the cache
\* still holding the table decoded before the failure
C26_Witness ==
    /\ ret.op = "get_column_data" /\ ret.status = "ok" /\ ret.afterFail
    /\ ret.hit
    /\ Failing(ret.p) # {}

\* C27 (resolved spatial indices are valid columns): after a successful open
\* each of the three resolved (x, y, z) indices i satisfies
\* 0 <= i < schema width, also when the lookup fell back to the defaults.
C27_SpatialIndicesInSchema ==
    \A p \in Parsers :
        parser[p].state = "open"
        => \A k \in 1..3 :
              /\ 0 <= parser[p]._atoms_spatial_coordinates_indices[k]
              /\ parser[p]._atoms_spatial_coordinates_indices[k] < Len(parser[p]._headers)

\* C28 (a byte range belongs to its own block): every recorded (timestep,
\* range) follows a timestep marker with that id, with no other timestep
\* marker between that marker and the end of the range, also when a block
\* has no ATOMS marker.
C28_RangeInOwnBlock ==
    \A p \in Parsers :
        AfterInit(p)
        => LET f    == files[p]
               info == parser[p]._timestep_atom_info
           IN  \A k \in 1..Len(info) :
                 \E j \in Markers(f) :
                    /\ IntOk(ReadLine(f, j + 1))
                    /\ ReadLine(f, j + 1).toks[1] = info[k].ts
                    /\ j < info[k].start
                    /\ \A m \in Markers(f) : ~(j < m /\ m < info[k].end)

\* C29 (parallel analysis result): a run of run_analysis_parallel, and each
\* _execute_parallel_batch in it, returns normally, with True if and only if
\* every submitted analysis returned a truthy result without raising and with
\* False otherwise.
C29_ParallelResult ==
    (analyzer.pc = "done" /\ analyzer.batch_size > 0)
    => /\ analyzer.result \in {"True", "False"}
       /\ analyzer.result = "True" <=> analyzer.allok

\* C30 (memory-efficient sequential runs): with memory_efficient enabled the
\* decode cache is empty after every analysis of _run_analyses_sequential has
\* finished, whether it returned success, reported failure or raised; the run
\* executes every analysis and returns False exactly when one of them reported
\* failure or raised.
C30_SequentialClears ==
    [][/\ (analyzer.pc = "seq" /\ analyzer.memory_efficient
            /\ analyzer'.ran = analyzer.ran + 1)
            => cache' = <<>>
       /\ (analyzer'.pc = "done" /\ analyzer'.batch_size = 0 /\ analyzer.pc = "seq")
            => /\ analyzer'.ran = analyzer'.n
               /\ analyzer'.result = IF analyzer'.allok THEN "True" ELSE "False"]_vars

====
